---------------------------- MODULE Spec2Model ----------------------------
(***************************************************************************)
(* MockDB, the in-memory storage backend of the ledger                     *)
(* (shared/src/ledger/storage/mockdb.rs).                                   *)
(*                                                                         *)
(* The backend is one BTreeMap<String, Vec<u8>>.  Strings are modelled as  *)
(* sequences of character codes and the map as the sequence of its         *)
(* entries in ascending byte-lexicographic key order, which is the order   *)
(* a BTreeMap<String, _> iterates and ranges in.  Byte vectors are         *)
(* sequences of naturals.                                                  *)
(***************************************************************************)
EXTENDS Naturals, Sequences, FiniteSets

VARIABLES
    db,         \* MockDB.0 : the sorted sequence of entries [k |-> String, v |-> bytes]
    pc,         \* position of the write_block call in progress, "idle" between calls
    cur,        \* <<state>> : the BlockState argument of the call in progress, else << >>
    todo,       \* entries of state.subspaces the for_each of write_block has not visited yet
    ret,        \* what the last operation returned, NoRet once the caller has taken it
    nwrites,    \* number of write_block calls issued
    last,       \* history: <<state>> of the last completed write_block, else << >>
    committed   \* history: entries [height, key, value], latest write_block per (height, key)

vars == <<db, pc, cur, todo, ret, nwrites, last, committed>>

(***************************************************************************)
(* Bounds of the model.                                                    *)
(***************************************************************************)
MaxWrites == 2

\* Heights the driver commits at: small ones, and 9 and 10 whose decimal
\* encodings differ in length.
Heights == {0, 1, 9, 10}

\* Two distinguishable contents for every field of a BlockState.
Versions == {1, 2}

(***************************************************************************)
(* Strings.                                                                *)
(***************************************************************************)
KEY_SEGMENT_SEPARATOR == 47                       \* '/'
RESERVED_ADDRESS_PREFIX == 35                     \* '#'
RESERVED_VP_KEY == <<63>>                         \* "?"

S_tree == <<116, 114, 101, 101>>
S_root == <<114, 111, 111, 116>>
S_store == <<115, 116, 111, 114, 101>>
S_hash == <<104, 97, 115, 104>>
S_epoch == <<101, 112, 111, 99, 104>>
S_subspace == <<115, 117, 98, 115, 112, 97, 99, 101>>
S_address_gen == <<97, 100, 100, 114, 101, 115, 115, 95, 103, 101, 110>>
S_height == <<104, 101, 105, 103, 104, 116>>
S_epoch_start_height == S_epoch \o <<95, 115, 116, 97, 114, 116, 95>> \o S_height
S_epoch_start_time == S_epoch \o <<95, 115, 116, 97, 114, 116, 95, 116, 105, 109, 101>>

\* format!("{}", n) of an unsigned integer: its decimal digits.
RECURSIVE ToDecimal(_)
ToDecimal(n) ==
    IF n < 10 THEN <<48 + n>>
    ELSE ToDecimal(n \div 10) \o <<48 + (n % 10)>>

\* Ord for String: byte-wise lexicographic, a proper prefix is smaller.
RECURSIVE StrLTFrom(_, _, _)
StrLTFrom(a, b, i) ==
    IF i > Len(b) THEN FALSE
    ELSE IF i > Len(a) THEN TRUE
    ELSE IF a[i] = b[i] THEN StrLTFrom(a, b, i + 1)
    ELSE a[i] < b[i]

StrLT(a, b) == StrLTFrom(a, b, 1)

\* str::starts_with
StartsWith(s, p) == Len(p) <= Len(s) /\ SubSeq(s, 1, Len(p)) = p

\* str::strip_prefix: << rest >> when s starts with p, else << >>
StripPrefix(s, p) ==
    IF StartsWith(s, p) THEN <<SubSeq(s, Len(p) + 1, Len(s))>> ELSE << >>

\* str::split(sep).collect(): the pieces between separators, empty ones kept.
RECURSIVE Split(_, _)
Split(s, sep) ==
    LET at == {i \in 1..Len(s) : s[i] = sep} IN
    IF at = {} THEN <<s>>
    ELSE LET i == CHOOSE x \in at : \A y \in at : x <= y
         IN <<SubSeq(s, 1, i - 1)>> \o Split(SubSeq(s, i + 1, Len(s)), sep)

\* [String]::join(sep)
RECURSIVE Join(_, _)
Join(segs, sep) ==
    IF Len(segs) = 0 THEN << >>
    ELSE IF Len(segs) = 1 THEN segs[1]
    ELSE segs[1] \o <<sep>> \o Join(Tail(segs), sep)

(***************************************************************************)
(* Results.  tag is "Ok", "Err" or "Panic"; val is << >> for None or ()    *)
(* and <<x>> for Some(x); err names the error of an Err.                   *)
(***************************************************************************)
OkNone == [tag |-> "Ok", val |-> << >>, err |-> ""]
OkSome(x) == [tag |-> "Ok", val |-> <<x>>, err |-> ""]
Err(e) == [tag |-> "Err", val |-> << >>, err |-> e]
Panic == [tag |-> "Panic", val |-> << >>, err |-> ""]

(***************************************************************************)
(* Codec (types::encode / types::decode, Borsh): an unsigned 64-bit        *)
(* integer is its 8 bytes, little endian; a byte blob is its length as 4   *)
(* bytes, little endian, then the bytes.                                   *)
(***************************************************************************)
\* byte i (from 1, least significant first) of n
RECURSIVE ByteLE(_, _)
ByteLE(n, i) == IF i = 1 THEN n % 256 ELSE ByteLE(n \div 256, i - 1)

\* the number whose little-endian bytes are bytes[i..]
RECURSIVE SumLE(_, _)
SumLE(bytes, i) ==
    IF i > Len(bytes) THEN 0 ELSE bytes[i] + 256 * SumLE(bytes, i + 1)

EncodeU64(n) == [i \in 1..8 |-> ByteLE(n, i)]

DecodeU64(bytes) ==
    IF Len(bytes) = 8 THEN OkSome(SumLE(bytes, 1)) ELSE Err("CodingError")

EncodeBlob(b) == [i \in 1..4 |-> ByteLE(Len(b), i)] \o b

DecodeBlob(bytes) ==
    IF Len(bytes) >= 4 /\ SumLE(SubSeq(bytes, 1, 4), 1) = Len(bytes) - 4
    THEN OkSome(SubSeq(bytes, 5, Len(bytes)))
    ELSE Err("CodingError")

(***************************************************************************)
(* Key model (types::storage::Key): a sequence of segments, each a string. *)
(***************************************************************************)
\* BlockHeight::raw / to_db_key: the decimal digits of the height
HeightRaw(h) == ToDecimal(h)

\* BlockHeight::next_height
NextHeight(h) == h + 1

\* Key::push of a valid segment
KeyPush(key, seg) == Append(key, seg)

\* Key::join
KeyJoin(key, other) == key \o other

\* Key::to_string
KeyToString(key) == Join(key, KEY_SEGMENT_SEPARATOR)

\* The one address of the model and its string encoding ("A").
Addresses == {<<65>>}

\* Address::decode: << addr >> when the string encodes an address, else << >>
AddressDecode(s) == IF s \in Addresses THEN <<s>> ELSE << >>

\* the segment of an address: '#' followed by its encoding
AddressSeg(addr) == <<RESERVED_ADDRESS_PREFIX>> \o addr

\* Key::validity_predicate(addr): #addr/?
ValidityPredicate(addr) == <<AddressSeg(addr), RESERVED_VP_KEY>>

\* DbKeySeg::parse of one segment: reserved and empty segments are refused,
\* a segment starting with '#' must hold an address.
SegValid(seg) ==
    /\ seg # << >>
    /\ seg # RESERVED_VP_KEY
    /\ seg[1] = RESERVED_ADDRESS_PREFIX => AddressDecode(Tail(seg)) # << >>

\* Key::parse: << key >> when every segment parses, else << >>
KeyParse(s) ==
    LET segs == Split(s, KEY_SEGMENT_SEPARATOR) IN
    IF \A i \in 1..Len(segs) : SegValid(segs[i]) THEN <<segs>> ELSE << >>

(***************************************************************************)
(* BTreeMap<String, Vec<u8>> as the ascending sequence of its entries.     *)
(***************************************************************************)
EmptyMap == << >>

\* index of the first entry whose key is not below k, Len(m) + 1 if none
LowerBound(m, k) ==
    LET at == {i \in 1..Len(m) : ~StrLT(m[i].k, k)} IN
    IF at = {} THEN Len(m) + 1 ELSE CHOOSE x \in at : \A y \in at : x <= y

\* a map that keeps its entries in the order of their insertion
MapInsert_Unordered(m, k, v) ==
    LET at == {i \in 1..Len(m) : m[i].k = k} IN
    IF at # {}
    THEN [m EXCEPT ![CHOOSE i \in at : TRUE] = [k |-> k, v |-> v]]
    ELSE Append(m, [k |-> k, v |-> v])

\* BTreeMap::insert: replaces the value of a present key, else adds the
\* entry at its place in the order
MapInsert(m, k, v) ==
    LET pos == LowerBound(m, k) IN
    IF pos <= Len(m) /\ m[pos].k = k
    THEN [m EXCEPT ![pos] = [k |-> k, v |-> v]]
    ELSE SubSeq(m, 1, pos - 1) \o <<[k |-> k, v |-> v]>> \o SubSeq(m, pos, Len(m))

\* BTreeMap::get: << value >> or << >>
MapGet(m, k) ==
    LET at == {i \in 1..Len(m) : m[i].k = k} IN
    IF at = {} THEN << >> ELSE <<m[CHOOSE i \in at : TRUE].v>>

\* BTreeMap::range((Included(lo), Excluded(hi))): the entries with
\* lo <= key < hi in order; the call panics when lo > hi.
RangePanics(lo, hi) == StrLT(hi, lo)

MapRange(m, lo, hi) ==
    SelectSeq(m, LAMBDA e : ~StrLT(e.k, lo) /\ StrLT(e.k, hi))

MapKeys(m) == {m[i].k : i \in 1..Len(m)}

(***************************************************************************)
(* The stored key-space layout, as write_block builds the keys.            *)
(***************************************************************************)
\* Key::from(state.height.to_db_key())
PrefixKey(h) == <<HeightRaw(h)>>

TreeRootKey(h) == KeyToString(KeyPush(KeyPush(PrefixKey(h), S_tree), S_root))
TreeStoreKey(h) == KeyToString(KeyPush(KeyPush(PrefixKey(h), S_tree), S_store))
HashKey(h) == KeyToString(KeyPush(PrefixKey(h), S_hash))
EpochKey(h) == KeyToString(KeyPush(PrefixKey(h), S_epoch))
AddressGenKey(h) == KeyToString(KeyPush(PrefixKey(h), S_address_gen))

\* subspace keys built without the height
SubspaceKey_NoHeight(h, key) == KeyToString(KeyJoin(<<S_subspace>>, key))

\* subspace_prefix.join(key).to_string()
SubspaceKey(h, key) ==
    KeyToString(KeyJoin(KeyPush(PrefixKey(h), S_subspace), key))

(***************************************************************************)
(* The BlockStates the driver commits.                                     *)
(***************************************************************************)
K_ax == <<<<97>>, <<120>>>>                       \* a/x
K_ay == <<<<97>>, <<121>>>>                       \* a/y
K_bz == <<<<98>>, <<122>>>>                       \* b/z
K_abz == <<<<97, 98>>, <<122>>>>                  \* ab/z
K_vp == ValidityPredicate(<<65>>)                 \* #A/?

SubspaceKeys == {K_ax, K_ay, K_bz, K_abz, K_vp}

\* the key sets a committed subspace holds
SubspaceChoices == {{K_ax, K_ay, K_bz}, {K_ax, K_abz, K_vp}}

\* raw value of a subspace entry: as many bytes as the version
SubValue(ver) == [i \in 1..ver |-> ver]

MkState(h, ver, keys) ==
    [ root               |-> <<10 + ver>>,
      store              |-> <<20 + ver, 0>>,
      hash               |-> <<30 + ver>>,
      height             |-> h,
      epoch              |-> ver,
      epoch_start_height |-> 100 + ver,
      epoch_start_time   |-> <<50 + ver>>,
      subspaces          |-> [k \in keys |-> SubValue(ver)],
      address_gen        |-> <<40 + ver>> ]

BlockStates ==
    {MkState(h, ver, keys) : h \in Heights, ver \in Versions, keys \in SubspaceChoices}

\* read with the "subspace" segment left out of the looked-up key
ReadOp_NoSubspace(m, h, key) ==
    LET got == MapGet(m, KeyToString(KeyJoin(PrefixKey(h), key))) IN
    IF got # << >> THEN OkSome(got[1]) ELSE OkNone

(***************************************************************************)
(* read                                                                    *)
(***************************************************************************)
ReadOp(m, h, key) ==
    LET got == MapGet(m, SubspaceKey(h, key)) IN
    IF got # << >> THEN OkSome(got[1]) ELSE OkNone

(***************************************************************************)
(* read_last_block                                                         *)
(***************************************************************************)
\* HashMap::insert on the subspaces being collected
SubspacesInsert(f, key, bytes) ==
    [x \in (DOMAIN f) \cup {key} |-> IF x = key THEN bytes ELSE f[x]]

\* the locals of the scan; stop is "" while the loop runs, else what ended it
ScanStart ==
    [ root |-> << >>, store |-> << >>, hash |-> << >>, epoch |-> << >>,
      address_gen |-> << >>, subspaces |-> << >>, stop |-> "" ]

\* the key of a subspace entry, from the segments of its path
ScanSubspaceKey(segments) ==
    IF Len(segments) >= 4 /\ segments[4] = RESERVED_VP_KEY
    THEN \* addr_str.remove(0) and the two expect()s panic on a bad address
         IF segments[3] = << >> \/ AddressDecode(Tail(segments[3])) = << >>
         THEN [stop |-> "Panic", key |-> << >>]
         ELSE [stop |-> "",
               key |-> ValidityPredicate(AddressDecode(Tail(segments[3]))[1])]
    ELSE LET parsed == KeyParse(Join(SubSeq(segments, 3, Len(segments)),
                                     KEY_SEGMENT_SEPARATOR))
         IN IF parsed = << >>
            THEN [stop |-> "Temporary:CannotParseKey", key |-> << >>]
            ELSE [stop |-> "", key |-> parsed[1]]

\* one iteration of the loop over the range: classify the entry by its
\* segments after the height and decode it into its local
ScanEntry(acc, e) ==
    LET segments == Split(e.k, KEY_SEGMENT_SEPARATOR)
        unknown == [acc EXCEPT !.stop = "UnknownKey"]
        coding == [acc EXCEPT !.stop = "CodingError"]
        blob == DecodeBlob(e.v)
        num == DecodeU64(e.v)
    IN
    IF Len(segments) < 2 THEN unknown
    ELSE IF segments[2] = S_tree THEN
        IF Len(segments) < 3 THEN unknown
        ELSE IF segments[3] = S_root THEN
            IF blob.tag = "Ok" THEN [acc EXCEPT !.root = blob.val] ELSE coding
        ELSE IF segments[3] = S_store THEN
            IF blob.tag = "Ok" THEN [acc EXCEPT !.store = blob.val] ELSE coding
        ELSE unknown
    ELSE IF segments[2] = S_hash THEN
        IF blob.tag = "Ok" THEN [acc EXCEPT !.hash = blob.val] ELSE coding
    ELSE IF segments[2] = S_epoch THEN
        IF num.tag = "Ok" THEN [acc EXCEPT !.epoch = num.val] ELSE coding
    ELSE IF segments[2] = S_subspace THEN
        LET sk == ScanSubspaceKey(segments) IN
        IF sk.stop # "" THEN [acc EXCEPT !.stop = sk.stop]
        ELSE [acc EXCEPT !.subspaces = SubspacesInsert(acc.subspaces, sk.key, e.v)]
    ELSE IF segments[2] = S_address_gen THEN
        IF blob.tag = "Ok" THEN [acc EXCEPT !.address_gen = blob.val] ELSE coding
    ELSE unknown

\* the loop: entries in key order, left at the first error
RECURSIVE Scan(_, _, _)
Scan(entries, i, acc) ==
    IF i > Len(entries) \/ acc.stop # "" THEN acc
    ELSE Scan(entries, i + 1, ScanEntry(acc, entries[i]))

\* the bounds of the scanned range
ScanLower(height) == HeightRaw(height) \o <<KEY_SEGMENT_SEPARATOR>>
ScanUpper(height) == HeightRaw(NextHeight(height)) \o <<KEY_SEGMENT_SEPARATOR>>

\* the final match on the five locals
ScanResult(acc, height, esh, est) ==
    IF acc.stop = "Panic" THEN Panic
    ELSE IF acc.stop # "" THEN Err(acc.stop)
    ELSE IF /\ acc.root # << >> /\ acc.store # << >> /\ acc.hash # << >>
            /\ acc.epoch # << >> /\ acc.address_gen # << >>
    THEN OkSome([ root               |-> acc.root[1],
                  store              |-> acc.store[1],
                  hash               |-> acc.hash[1],
                  height             |-> height,
                  epoch              |-> acc.epoch[1],
                  epoch_start_height |-> esh,
                  epoch_start_time   |-> est,
                  subspaces          |-> acc.subspaces,
                  address_gen        |-> acc.address_gen[1] ])
    ELSE Err("Temporary:EssentialData")

\* read_last_block taking a missing epoch_start_time for corruption
ReadLastBlockOp_MissingTimeIsError(m) ==
    LET hb == MapGet(m, S_height)
        eb == MapGet(m, S_epoch_start_height)
        tb == MapGet(m, S_epoch_start_time)
    IN
    IF hb = << >> THEN OkNone
    ELSE IF DecodeU64(hb[1]).tag # "Ok" THEN Err("CodingError")
    ELSE IF eb = << >> THEN OkNone
    ELSE IF DecodeU64(eb[1]).tag # "Ok" THEN Err("CodingError")
    ELSE IF tb = << >> THEN Err("Temporary:EssentialData")
    ELSE IF DecodeBlob(tb[1]).tag # "Ok" THEN Err("CodingError")
    ELSE LET height == DecodeU64(hb[1]).val[1]
             lo == ScanLower(height)
             hi == ScanUpper(height)
         IN IF RangePanics(lo, hi) THEN Panic
            ELSE ScanResult(Scan(MapRange(m, lo, hi), 1, ScanStart), height,
                            DecodeU64(eb[1]).val[1], DecodeBlob(tb[1]).val[1])

ReadLastBlockOp(m) ==
    LET hb == MapGet(m, S_height)
        eb == MapGet(m, S_epoch_start_height)
        tb == MapGet(m, S_epoch_start_time)
    IN
    IF hb = << >> THEN OkNone
    ELSE IF DecodeU64(hb[1]).tag # "Ok" THEN Err("CodingError")
    ELSE IF eb = << >> THEN OkNone
    ELSE IF DecodeU64(eb[1]).tag # "Ok" THEN Err("CodingError")
    ELSE IF tb = << >> THEN OkNone
    ELSE IF DecodeBlob(tb[1]).tag # "Ok" THEN Err("CodingError")
    ELSE LET height == DecodeU64(hb[1]).val[1]
             lo == ScanLower(height)
             hi == ScanUpper(height)
         IN IF RangePanics(lo, hi) THEN Panic
            ELSE ScanResult(Scan(MapRange(m, lo, hi), 1, ScanStart), height,
                            DecodeU64(eb[1]).val[1], DecodeBlob(tb[1]).val[1])

(***************************************************************************)
(* iter_prefix, and the iterator it returns run to its end                 *)
(***************************************************************************)
\* format!("{}/subspace/", height.raw())
DbPrefix(h) ==
    HeightRaw(h) \o <<KEY_SEGMENT_SEPARATOR>> \o S_subspace \o <<KEY_SEGMENT_SEPARATOR>>

\* an iterator that drops the starts_with test
MockIteratorItems_NoFilter(m, prefix) == m

\* MockIterator::next until None: the entries, in order, whose key starts
\* with the prefix
MockIteratorItems(m, prefix) == SelectSeq(m, LAMBDA e : StartsWith(e.k, prefix))

\* a PrefixIterator that charges for the key as stored
PrefixIteratorItems_StoredKeyGas(raw, db_prefix) ==
    LET kept == SelectSeq(raw, LAMBDA e : StripPrefix(e.k, db_prefix) # << >>) IN
    [i \in 1..Len(kept) |->
        [key |-> StripPrefix(kept[i].k, db_prefix)[1], val |-> kept[i].v,
         gas |-> Len(kept[i].k) + Len(kept[i].v)]]

\* PrefixIterator::next until None: entries whose key does not start with
\* db_prefix are passed over, the others lose it and get their gas cost
PrefixIteratorItems(raw, db_prefix) ==
    LET kept == SelectSeq(raw, LAMBDA e : StripPrefix(e.k, db_prefix) # << >>) IN
    [i \in 1..Len(kept) |->
        LET k == StripPrefix(kept[i].k, db_prefix)[1] IN
        [key |-> k, val |-> kept[i].v, gas |-> Len(k) + Len(kept[i].v)]]

\* an iter_prefix that leaves the caller's prefix out of the iterator's
IterPrefixOp_WholeSubspace(m, h, prefix) ==
    PrefixIteratorItems(MockIteratorItems(m, DbPrefix(h)), DbPrefix(h))

\* fn iter_prefix(&self, height, prefix)
IterPrefixOp(m, h, prefix) ==
    PrefixIteratorItems(
        MockIteratorItems(m, DbPrefix(h) \o KeyToString(prefix)), DbPrefix(h))

(***************************************************************************)
(* The state machine.  The driver issues one call at a time (write_block   *)
(* and read_last_block take &mut self) and takes its result (Return).      *)
(* write_block is its insertions in program order, so that the states      *)
(* inside a call exist; nothing else runs inside a call.                   *)
(***************************************************************************)
NoRet == [op |-> "none", height |-> 0, key |-> << >>, res |-> OkNone]
Returned(op, h, key, res) == [op |-> op, height |-> h, key |-> key, res |-> res]

\* the prefixes iter_prefix is called with: a, b, a/x
Prefixes == {<<<<97>>>>, <<<<98>>>>, K_ax}

Init ==
    /\ db = EmptyMap
    /\ pc = "idle"
    /\ cur = << >>
    /\ todo = {}
    /\ ret = NoRet
    /\ nwrites = 0
    /\ last = << >>
    /\ committed = << >>

Idle == pc = "idle" /\ ret = NoRet

\* a flush that empties the store
Flush_Clears ==
    /\ Idle
    /\ ret' = Returned("flush", 0, << >>, OkNone)
    /\ db' = EmptyMap
    /\ UNCHANGED <<pc, cur, todo, nwrites, last, committed>>

\* fn flush(&self)
Flush ==
    /\ Idle
    /\ ret' = Returned("flush", 0, << >>, OkNone)
    /\ UNCHANGED <<db, pc, cur, todo, nwrites, last, committed>>

\* write_block is entered with a BlockState
WriteBlockCall ==
    /\ Idle
    /\ nwrites < MaxWrites
    /\ \E state \in BlockStates :
        /\ cur' = <<state>>
        /\ todo' = DOMAIN state.subspaces
    /\ pc' = "epoch_start_height"
    /\ nwrites' = nwrites + 1
    /\ UNCHANGED <<db, ret, last, committed>>

\* one self.0.insert(key, value) of write_block, then on to the next
WriteInsert(at, key, value, next) ==
    /\ pc = at
    /\ db' = MapInsert(db, key, value)
    /\ pc' = next
    /\ UNCHANGED <<cur, todo, ret, nwrites, last, committed>>

\* a write_block that starts with the pointer
WriteEpochStartHeight_PointerFirst ==
    WriteInsert("epoch_start_height", S_height,
                EncodeU64(cur[1].height), "epoch_start_time")

WriteEpochStartHeight ==
    WriteInsert("epoch_start_height", S_epoch_start_height,
                EncodeU64(cur[1].epoch_start_height), "epoch_start_time")

WriteEpochStartTime ==
    WriteInsert("epoch_start_time", S_epoch_start_time,
                EncodeBlob(cur[1].epoch_start_time), "tree_root")

WriteTreeRoot ==
    WriteInsert("tree_root", TreeRootKey(cur[1].height),
                EncodeBlob(cur[1].root), "tree_store")

WriteTreeStore ==
    WriteInsert("tree_store", TreeStoreKey(cur[1].height),
                EncodeBlob(cur[1].store), "hash")

\* a write_block that leaves the block hash out
WriteHash_Skipped ==
    /\ pc = "hash"
    /\ pc' = "epoch"
    /\ UNCHANGED <<db, cur, todo, ret, nwrites, last, committed>>

WriteHash ==
    WriteInsert("hash", HashKey(cur[1].height), EncodeBlob(cur[1].hash), "epoch")

WriteEpoch ==
    WriteInsert("epoch", EpochKey(cur[1].height), EncodeU64(cur[1].epoch), "subspace")

\* state.subspaces.iter().for_each(..): a HashMap is visited in any order
WriteSubspace ==
    /\ pc = "subspace"
    /\ \E key \in todo :
        /\ db' = MapInsert(db, SubspaceKey(cur[1].height, key), cur[1].subspaces[key])
        /\ todo' = todo \ {key}
    /\ UNCHANGED <<pc, cur, ret, nwrites, last, committed>>

WriteAddressGen ==
    /\ todo = {}
    /\ WriteInsert("subspace", AddressGenKey(cur[1].height),
                   EncodeBlob(cur[1].address_gen), "height")

\* history: the latest committed value of every (height, key)
Commit(hist, state) ==
    LET new == {<<state.height, k>> : k \in DOMAIN state.subspaces} IN
    [p \in (DOMAIN hist) \cup new |->
        IF p \in new THEN state.subspaces[p[2]] ELSE hist[p]]

\* a write_block that moves the pointer only upwards
WriteHeight_OnlyUpwards ==
    /\ pc = "height"
    /\ db' = IF MapGet(db, S_height) # << >>
                 /\ DecodeU64(MapGet(db, S_height)[1]).val[1] >= cur[1].height
              THEN db
              ELSE MapInsert(db, S_height, EncodeU64(cur[1].height))
    /\ pc' = "idle"
    /\ ret' = Returned("write_block", cur[1].height, << >>, OkNone)
    /\ last' = cur
    /\ committed' = Commit(committed, cur[1])
    /\ cur' = << >>
    /\ UNCHANGED <<todo, nwrites>>

\* the last insertion, of the "height" pointer, and Ok(())
WriteHeight ==
    /\ pc = "height"
    /\ db' = MapInsert(db, S_height, EncodeU64(cur[1].height))
    /\ pc' = "idle"
    /\ ret' = Returned("write_block", cur[1].height, << >>, OkNone)
    /\ last' = cur
    /\ committed' = Commit(committed, cur[1])
    /\ cur' = << >>
    /\ UNCHANGED <<todo, nwrites>>

\* fn read(&self, height, key)
Read ==
    /\ Idle
    /\ \E h \in Heights, key \in SubspaceKeys :
        ret' = Returned("read", h, key, ReadOp(db, h, key))
    /\ UNCHANGED <<db, pc, cur, todo, nwrites, last, committed>>

\* fn read_last_block(&mut self)
ReadLastBlock ==
    /\ Idle
    /\ ret' = Returned("read_last_block", 0, << >>, ReadLastBlockOp(db))
    /\ UNCHANGED <<db, pc, cur, todo, nwrites, last, committed>>

\* fn iter_prefix(&self, height, prefix), the iterator run to its end
IterPrefix ==
    /\ Idle
    /\ \E h \in Heights, prefix \in Prefixes :
        ret' = Returned("iter_prefix", h, prefix,
                        [tag |-> "Items", val |-> IterPrefixOp(db, h, prefix), err |-> ""])
    /\ UNCHANGED <<db, pc, cur, todo, nwrites, last, committed>>

\* the caller takes the result
Return ==
    /\ ret # NoRet
    /\ ret' = NoRet
    /\ UNCHANGED <<db, pc, cur, todo, nwrites, last, committed>>

Next ==
    \/ Flush
    \/ WriteBlockCall
    \/ WriteEpochStartHeight
    \/ WriteEpochStartTime
    \/ WriteTreeRoot
    \/ WriteTreeStore
    \/ WriteHash
    \/ WriteEpoch
    \/ WriteSubspace
    \/ WriteAddressGen
    \/ WriteHeight
    \/ Read
    \/ ReadLastBlock
    \/ IterPrefix
    \/ Return

Spec == Init /\ [][Next]_vars

(***************************************************************************)
(* Any store.  MockDB is a BTreeMap<String, Vec<u8>> and read_last_block   *)
(* is written for maps that write_block did not leave: entries missing,    *)
(* undecodable or of an unknown shape.  SpecAny runs the read operations   *)
(* on an empty store or the store of one committed block, changed in at    *)
(* most MaxDamage entries.                                                 *)
(***************************************************************************)
MaxDamage == 2

\* the map write_block(state) leaves when called on m
RECURSIVE InsertSubspaces(_, _, _)
InsertSubspaces(m, state, keys) ==
    IF keys = {} THEN m
    ELSE LET key == CHOOSE x \in keys : TRUE
         IN InsertSubspaces(
                MapInsert(m, SubspaceKey(state.height, key), state.subspaces[key]),
                state, keys \ {key})

WriteBlockOp(m, state) ==
    LET h == state.height
        m1 == MapInsert(m, S_epoch_start_height, EncodeU64(state.epoch_start_height))
        m2 == MapInsert(m1, S_epoch_start_time, EncodeBlob(state.epoch_start_time))
        m3 == MapInsert(m2, TreeRootKey(h), EncodeBlob(state.root))
        m4 == MapInsert(m3, TreeStoreKey(h), EncodeBlob(state.store))
        m5 == MapInsert(m4, HashKey(h), EncodeBlob(state.hash))
        m6 == MapInsert(m5, EpochKey(h), EncodeU64(state.epoch))
        m7 == InsertSubspaces(m6, state, DOMAIN state.subspaces)
        m8 == MapInsert(m7, AddressGenKey(h), EncodeBlob(state.address_gen))
    IN MapInsert(m8, S_height, EncodeU64(h))

\* the heights of the committed block of SpecAny
AnyHeights == {1, 9}

BaseStores ==
    {EmptyMap} \cup
    {WriteBlockOp(EmptyMap, MkState(h, 1, {K_ax, K_abz, K_vp})) : h \in AnyHeights}

S_foo == <<102, 111, 111>>
S_other == <<111, 116, 104, 101, 114>>
S_extra == <<101, 120, 116, 114, 97>>

\* a change of one entry: v = << bytes >> sets it, v = << >> removes it
Removals(m) == {[k |-> key, v |-> << >>] : key \in MapKeys(m)}

\* entries write_block would not have left: values that do not decode,
\* keys of no known shape, subspace paths that are no key, and an entry of
\* height 10
Foreign ==
    {[k |-> S_height, v |-> <<<<255>>>>],
     [k |-> S_epoch_start_height, v |-> <<<<255>>>>],
     [k |-> S_epoch_start_time, v |-> <<<<255>>>>],
     [k |-> HashKey(10), v |-> <<EncodeBlob(<<32>>)>>]}
    \cup UNION {
        {[k |-> KeyToString(<<HeightRaw(h), S_foo>>), v |-> <<<<1>>>>],
         [k |-> KeyToString(<<HeightRaw(h), S_tree>>), v |-> <<<<1>>>>],
         [k |-> KeyToString(<<HeightRaw(h), S_tree, S_other>>), v |-> <<<<1>>>>],
         [k |-> KeyToString(<<HeightRaw(h), S_hash, S_extra>>), v |-> <<EncodeBlob(<<33>>)>>],
         [k |-> KeyToString(<<HeightRaw(h), S_tree, S_root, S_extra>>),
          v |-> <<EncodeBlob(<<13>>)>>],
         [k |-> KeyToString(<<HeightRaw(h), S_subspace, RESERVED_VP_KEY>>), v |-> <<<<1>>>>],
         [k |-> KeyToString(<<HeightRaw(h), S_subspace, <<120>>, RESERVED_VP_KEY>>),
          v |-> <<<<1>>>>]} : h \in AnyHeights}

\* the sets of at most n changes
RECURSIVE ChangeSets(_, _)
ChangeSets(U, n) ==
    IF n = 0 THEN {{}}
    ELSE LET prev == ChangeSets(U, n - 1)
         IN prev \cup {s \cup {c} : s \in prev, c \in U}

MapRemove(m, k) == SelectSeq(m, LAMBDA e : e.k # k)

RECURSIVE ApplyChanges(_, _)
ApplyChanges(m, changes) ==
    IF changes = {} THEN m
    ELSE LET c == CHOOSE x \in changes : TRUE
             m1 == IF c.v = << >> THEN MapRemove(m, c.k) ELSE MapInsert(m, c.k, c.v[1])
         IN ApplyChanges(m1, changes \ {c})

InitAny ==
    /\ \E base \in BaseStores :
        \E changes \in ChangeSets(Removals(base) \cup Foreign, MaxDamage) :
            /\ \A c, d \in changes : c.k = d.k => c = d
            /\ db = ApplyChanges(base, changes)
    /\ pc = "idle"
    /\ cur = << >>
    /\ todo = {}
    /\ ret = NoRet
    /\ nwrites = 0
    /\ last = << >>
    /\ committed = << >>

NextAny ==
    \/ Flush
    \/ Read
    \/ ReadLastBlock
    \/ IterPrefix
    \/ Return

SpecAny == InitAny /\ [][NextAny]_vars

(***************************************************************************)
(* Properties.                                                             *)
(***************************************************************************)
\* the entries of a map that belong to height h: those whose key starts
\* with the decimal encoding of h and a separator
EntriesOfHeight(m, h) ==
    SelectSeq(m, LAMBDA e : StartsWith(e.k, HeightRaw(h) \o <<KEY_SEGMENT_SEPARATOR>>))

\* the subspace keys committed at height h so far
CommittedKeys(h) == {k \in SubspaceKeys : <<h, k>> \in DOMAIN committed}

\* C1: after write_block(s) has returned Ok, read_last_block returns
\* Ok(Some(s')) with s' equal to s in every field, at every height and after
\* any earlier write_block calls.
C1_WriteReadBack ==
    (ret.op = "read_last_block" /\ last # << >>) => ret.res = OkSome(last[1])

\* C2: read(H, k) returns Ok(Some(v)), v the raw value the most recent
\* write_block at height H holding k gave for k, and Ok(None) when no
\* write_block at height H held k; it never returns an error.
C2_ReadAsOfHeight ==
    ret.op = "read" =>
        ret.res = IF <<ret.height, ret.key>> \in DOMAIN committed
                  THEN OkSome(committed[<<ret.height, ret.key>>])
                  ELSE OkNone

\* C2 witness: a read answered with the value committed at its height while
\* the same key holds another value at another height, the asked height
\* not being the one written last.
C2_Witness ==
    /\ ret.op = "read"
    /\ ret.res.val # << >>
    /\ last # << >> /\ last[1].height # ret.height
    /\ \E h \in Heights :
        /\ <<h, ret.key>> \in DOMAIN committed
        /\ committed[<<h, ret.key>>] # ret.res.val[1]

\* the height a step of write_block writes at, -1 for any other step
WritingAt == IF cur # << >> THEN cur[1].height ELSE 0 - 1

\* C3: a step of write_block(s) changes no stored entry of a height other
\* than s.height, and so leaves read(H, k) as it was for every other height
\* H and every key k.
C3_HistoricalIsolation ==
    [][db' # db =>
          \A h \in Heights : h # WritingAt =>
              /\ EntriesOfHeight(db', h) = EntriesOfHeight(db, h)
              /\ \A k \in SubspaceKeys : ReadOp(db', h, k) = ReadOp(db, h, k)]_vars

\* C3 witness: write_block at H+1 has completed after keys were committed at
\* H, and reads at H still give what was committed there.
C3_Witness ==
    /\ pc = "idle"
    /\ last # << >>
    /\ \E h \in Heights :
        /\ last[1].height = h + 1
        /\ CommittedKeys(h) # {}
        /\ \A k \in CommittedKeys(h) :
            /\ ReadOp(db, h, k) = OkSome(committed[<<h, k>>])
            /\ k \in DOMAIN last[1].subspaces => last[1].subspaces[k] # committed[<<h, k>>]

\* the keys and values of yielded items
KeysAndValues(items) == [i \in 1..Len(items) |-> <<items[i].key, items[i].val>>]

\* iter_prefix(H, a) was called on a height committed with exactly a/x, a/y, b/z
C4_Case ==
    /\ ret.op = "iter_prefix"
    /\ ret.key = <<<<97>>>>
    /\ CommittedKeys(ret.height) = {K_ax, K_ay, K_bz}

\* C4 as claimed: the two items have the keys x and y.
C4_KeysXY ==
    C4_Case =>
        KeysAndValues(ret.res.val) =
            << <<<<120>>, committed[<<ret.height, K_ax>>]>>,
               <<<<121>>, committed[<<ret.height, K_ay>>]>> >>

\* C4: for a height H committed with the subspace entries a/x: v1, a/y: v2,
\* b/z: v3, iter_prefix(H, a) yields exactly two items, in lexicographic
\* order, whose keys are a/x and a/y (the keys relative to the subspace,
\* prefix included) with the values v1 and v2; nothing is yielded for b/z.
C4_PrefixIteration ==
    C4_Case =>
        KeysAndValues(ret.res.val) =
            << <<KeyToString(K_ax), committed[<<ret.height, K_ax>>]>>,
               <<KeyToString(K_ay), committed[<<ret.height, K_ay>>]>> >>

\* C4 witness: the case, with entries of another height in the store too.
C4_Witness ==
    /\ C4_Case
    /\ Len(ret.res.val) = 2
    /\ \E h \in Heights : h # ret.height /\ CommittedKeys(h) # {}

\* the height the stored pointer names: << H >>, or << >> when the pointer
\* is absent or does not decode
PointedHeight(m) ==
    LET hb == MapGet(m, S_height) IN
    IF hb = << >> THEN << >> ELSE DecodeU64(hb[1]).val

\* the keys of the five entries a block cannot be read back without
EssentialKeys(h) ==
    {TreeRootKey(h), TreeStoreKey(h), HashKey(h), EpochKey(h), AddressGenKey(h)}

\* a string of decimal digits
IsDecimal(str) == str # << >> /\ \A i \in 1..Len(str) : str[i] \in 48..57

\* an entry as write_block writes them: a key of the layout with a value
\* that decodes (a subspace value is raw bytes; its path must be a key)
LayoutEntry(e) ==
    LET seg == Split(e.k, KEY_SEGMENT_SEPARATOR) IN
    \/ e.k \in {S_height, S_epoch_start_height} /\ DecodeU64(e.v).tag = "Ok"
    \/ e.k = S_epoch_start_time /\ DecodeBlob(e.v).tag = "Ok"
    \/ /\ Len(seg) >= 2
       /\ IsDecimal(seg[1])
       /\ \/ /\ Len(seg) = 3 /\ seg[2] = S_tree /\ seg[3] \in {S_root, S_store}
             /\ DecodeBlob(e.v).tag = "Ok"
          \/ /\ Len(seg) = 2 /\ seg[2] \in {S_hash, S_address_gen}
             /\ DecodeBlob(e.v).tag = "Ok"
          \/ /\ Len(seg) = 2 /\ seg[2] = S_epoch
             /\ DecodeU64(e.v).tag = "Ok"
          \/ /\ Len(seg) >= 3 /\ seg[2] = S_subspace
             /\ ScanSubspaceKey(seg).stop = ""

\* C5: in a store holding the height pointer and both epoch-start entries,
\* with one of the five essential entries of the pointed height H missing,
\* read_last_block returns the Temporary essential-data error and no
\* state, at every H.  Stated for the stores all of whose entries are of
\* the layout, where no other error can come first.
C5_CorruptionDetected ==
    ( /\ ret.op = "read_last_block"
      /\ \A i \in 1..Len(db) : LayoutEntry(db[i])
      /\ PointedHeight(db) # << >>
      /\ MapGet(db, S_epoch_start_height) # << >>
      /\ MapGet(db, S_epoch_start_time) # << >>
      /\ \E key \in EssentialKeys(PointedHeight(db)[1]) : MapGet(db, key) = << >> )
    => ret.res = Err("Temporary:EssentialData")

\* C6: after write_block of a state whose subspaces hold the key
\* validity_predicate(A), read_last_block returns a state whose subspaces
\* hold that key with the same value, at every height.
C6_ValidityPredicateRoundTrip ==
    ( /\ ret.op = "read_last_block"
      /\ last # << >>
      /\ K_vp \in DOMAIN last[1].subspaces )
    => /\ ret.res.tag = "Ok"
       /\ ret.res.val # << >>
       /\ K_vp \in DOMAIN ret.res.val[1].subspaces
       /\ ret.res.val[1].subspaces[K_vp] = last[1].subspaces[K_vp]

\* C7 as claimed: read_last_block returns Ok(None) whenever the height
\* pointer or one of the two epoch-start entries is absent, whatever else
\* is stored; on an empty store every read returns Ok(None).
C7_NoBlockWheneverAbsent ==
    /\ ( /\ ret.op = "read_last_block"
         /\ \/ MapGet(db, S_height) = << >>
            \/ MapGet(db, S_epoch_start_height) = << >>
            \/ MapGet(db, S_epoch_start_time) = << >> )
       => ret.res = OkNone
    /\ (ret.op = "read" /\ db = EmptyMap) => ret.res = OkNone

\* the value stored under a global key is there and decodes
DecodesU64(m, k) == MapGet(m, k) # << >> /\ DecodeU64(MapGet(m, k)[1]).tag = "Ok"

\* C7: read_last_block returns Ok(None) when the height pointer is absent,
\* when the pointer decodes and epoch_start_height is absent, and when both
\* decode and epoch_start_time is absent, whatever else is stored (an entry
\* read earlier that does not decode gives CodingError before the absence
\* is seen); on an empty store every read returns Ok(None).
C7_NoBlock ==
    /\ ( /\ ret.op = "read_last_block"
         /\ \/ MapGet(db, S_height) = << >>
            \/ /\ DecodesU64(db, S_height)
               /\ MapGet(db, S_epoch_start_height) = << >>
            \/ /\ DecodesU64(db, S_height)
               /\ DecodesU64(db, S_epoch_start_height)
               /\ MapGet(db, S_epoch_start_time) = << >> )
       => ret.res = OkNone
    /\ (ret.op = "read" /\ db = EmptyMap) => ret.res = OkNone

\* C7 witness: read_last_block has answered Ok(None) on a store that holds
\* the pointer and entries of the pointed height but no epoch_start_time.
C7_Witness ==
    /\ ret.op = "read_last_block"
    /\ ret.res = OkNone
    /\ PointedHeight(db) # << >>
    /\ EntriesOfHeight(db, PointedHeight(db)[1]) # << >>
    /\ MapGet(db, S_epoch_start_height) # << >>
    /\ MapGet(db, S_epoch_start_time) = << >>

\* C8: at every point inside write_block for height H+1 that follows a
\* completed write_block(s) for height H, a state that read_last_block
\* returns equals s in every field, epoch_start_height and
\* epoch_start_time included, and every read returns what was committed.
C8_NoPartialWriteVisibility ==
    (pc # "idle" /\ last # << >> /\ cur[1].height = last[1].height + 1)
    => /\ ReadLastBlockOp(db).val # << >> => ReadLastBlockOp(db) = OkSome(last[1])
       /\ \A k \in CommittedKeys(last[1].height) :
            ReadOp(db, last[1].height, k) = OkSome(committed[<<last[1].height, k>>])

\* the entries one write_block(state) call inserts before the pointer
EntriesBeforePointer(state) ==
    {[k |-> S_epoch_start_height, v |-> EncodeU64(state.epoch_start_height)],
     [k |-> S_epoch_start_time, v |-> EncodeBlob(state.epoch_start_time)],
     [k |-> TreeRootKey(state.height), v |-> EncodeBlob(state.root)],
     [k |-> TreeStoreKey(state.height), v |-> EncodeBlob(state.store)],
     [k |-> HashKey(state.height), v |-> EncodeBlob(state.hash)],
     [k |-> EpochKey(state.height), v |-> EncodeU64(state.epoch)],
     [k |-> AddressGenKey(state.height), v |-> EncodeBlob(state.address_gen)]}
    \cup {[k |-> SubspaceKey(state.height, key), v |-> state.subspaces[key]] :
            key \in DOMAIN state.subspaces}

\* C9: inside a write_block call the "height" entry still holds the value
\* it had before the call (or is absent), and when the call comes to write
\* it every other entry of the call is stored.
C9_PointerLast ==
    pc # "idle" =>
        /\ MapGet(db, S_height) =
              IF last = << >> THEN << >> ELSE <<EncodeU64(last[1].height)>>
        /\ pc = "height" =>
              \A e \in EntriesBeforePointer(cur[1]) : MapGet(db, e.k) = <<e.v>>

\* C9 witness: a call for another height than the last one is about to
\* write the pointer.
C9_Witness ==
    /\ pc = "height"
    /\ last # << >>
    /\ last[1].height # cur[1].height

\* C10: for the latest height H the range from "<H>/" (inclusive) to
\* "<H+1>/" (exclusive) is well formed and holds exactly the stored entries
\* whose first segment is the decimal encoding of H.
C10_ScanRange ==
    (pc = "idle" /\ PointedHeight(db) # << >>) =>
        LET H == PointedHeight(db)[1] IN
        /\ ~RangePanics(ScanLower(H), ScanUpper(H))
        /\ MapRange(db, ScanLower(H), ScanUpper(H)) = EntriesOfHeight(db, H)

\* a stored key of height h whose segments after the height are exactly one
\* of tree/root, tree/store, hash, epoch, subspace/<path>, address_gen
KnownShape(k) ==
    LET seg == Split(k, KEY_SEGMENT_SEPARATOR) IN
    \/ Len(seg) = 3 /\ seg[2] = S_tree /\ seg[3] \in {S_root, S_store}
    \/ Len(seg) = 2 /\ seg[2] \in {S_hash, S_epoch, S_address_gen}
    \/ Len(seg) >= 3 /\ seg[2] = S_subspace

\* read_last_block runs on a store that holds the pointer and both
\* epoch-start entries, all three decoding, and an entry of the pointed
\* height whose key has no known shape, every entry of a known shape
\* being of the layout
C11_Case ==
    /\ ret.op = "read_last_block"
    /\ PointedHeight(db) # << >>
    /\ DecodesU64(db, S_height)
    /\ DecodesU64(db, S_epoch_start_height)
    /\ MapGet(db, S_epoch_start_time) # << >>
    /\ DecodeBlob(MapGet(db, S_epoch_start_time)[1]).tag = "Ok"
    /\ LET of == EntriesOfHeight(db, PointedHeight(db)[1]) IN
        /\ \E i \in 1..Len(of) : ~KnownShape(of[i].k)
        /\ \A i \in 1..Len(of) : KnownShape(of[i].k) => LayoutEntry(of[i])

\* C11: in a store holding the pointer and both epoch-start entries, where
\* the entries of the latest height H hold a key whose segments after the
\* height are not exactly tree/root, tree/store, hash, epoch,
\* subspace/<path> or address_gen, read_last_block returns UnknownKey.
\* Stated for the stores whose other entries all decode, where no
\* CodingError can come first.
C11_UnknownKeyIsError ==
    C11_Case => ret.res = Err("UnknownKey")

\* '<H>/subspace/' as the claim writes it
SubspaceOf(h) ==
    ToDecimal(h) \o <<KEY_SEGMENT_SEPARATOR>> \o S_subspace \o <<KEY_SEGMENT_SEPARATOR>>

\* the stored entries iter_prefix(h, p) is to yield: those whose key starts
\* with '<h>/subspace/' + to_string(p)
Matching(m, h, p) ==
    {i \in 1..Len(m) : StartsWith(m[i].k, SubspaceOf(h) \o KeyToString(p))}

\* C12: iter_prefix(H, p) yields exactly one item (r, v, g) for each stored
\* key '<H>/subspace/' + r whose string starts with
\* '<H>/subspace/' + to_string(p), v being the stored value, and nothing
\* else: no entry of another height, no entry outside the subspace, and
\* each matching entry once.
C12_IterPrefixExact ==
    ret.op = "iter_prefix" =>
        LET items == ret.res.val
            want  == Matching(db, ret.height, ret.key)
        IN
        /\ Len(items) = Cardinality(want)
        /\ \A i \in want :
            \E j \in 1..Len(items) :
                /\ SubspaceOf(ret.height) \o items[j].key = db[i].k
                /\ items[j].val = db[i].v
        /\ \A j \in 1..Len(items) :
            \E i \in want :
                /\ SubspaceOf(ret.height) \o items[j].key = db[i].k
                /\ items[j].val = db[i].v

\* C12 witness: an iteration that yields two items from a store that also
\* holds a subspace entry of the same height outside the prefix and
\* subspace entries of another height under the prefix.
C12_Witness ==
    /\ ret.op = "iter_prefix"
    /\ Len(ret.res.val) = 2
    /\ \E i \in 1..Len(db) :
        /\ StartsWith(db[i].k, SubspaceOf(ret.height))
        /\ i \notin Matching(db, ret.height, ret.key)
    /\ \E h \in Heights : h # ret.height /\ Matching(db, h, ret.key) # {}

\* C13: the gas cost g of every item (r, v, g) that iter_prefix yields is
\* the byte length of r, the stored key without '<H>/subspace/', plus the
\* byte length of the stored value v; the entries the iterator passed over
\* add nothing to it.
C13_GasCost ==
    ret.op = "iter_prefix" =>
        \A j \in 1..Len(ret.res.val) :
            LET item   == ret.res.val[j]
                stored == MapGet(db, SubspaceOf(ret.height) \o item.key)
            IN
            /\ stored # << >>
            /\ item.gas = Len(item.key) + Len(stored[1])
            /\ item.gas =
                 Len(SubspaceOf(ret.height) \o item.key)
                   - Len(SubspaceOf(ret.height)) + Len(item.val)

\* C13 witness: an iteration yielding items of different costs from a store
\* that holds entries the iteration passed over.
C13_Witness ==
    /\ ret.op = "iter_prefix"
    /\ \E i, j \in 1..Len(ret.res.val) : ret.res.val[i].gas # ret.res.val[j].gas
    /\ \E j \in 1..Len(ret.res.val) : Len(ret.res.val[j].val) = 2
    /\ Len(db) > Len(ret.res.val)

\* C14: iter_prefix yields its items in strictly increasing lexicographic
\* order of the stored string keys '<H>/subspace/' + r.
C14_IterationOrder ==
    ret.op = "iter_prefix" =>
        \A i, j \in 1..Len(ret.res.val) :
            i < j => StrLT(SubspaceOf(ret.height) \o ret.res.val[i].key,
                           SubspaceOf(ret.height) \o ret.res.val[j].key)

\* C14 witness: an iteration yielding two items after two write_block calls.
C14_Witness ==
    /\ ret.op = "iter_prefix"
    /\ Len(ret.res.val) >= 2
    /\ nwrites = 2

\* C15: flush, read, read_last_block and iter_prefix (its iterator run to
\* the end included) leave the store unchanged; the store changes only in
\* the steps of a write_block; flush returns Ok(()) always.
C15_OnlyWriteBlockMutates ==
    [][ /\ (ret' # ret /\ ret'.op \in {"flush", "read", "read_last_block", "iter_prefix"})
            => db' = db
        /\ db' # db => pc \notin {"idle"} /\ cur # << >>
        /\ (ret' # ret /\ ret'.op = "flush") => ret'.res = OkNone ]_vars

\* C15 witness: flush has returned on a store that two write_block calls
\* have filled.
C15_Witness ==
    /\ ret.op = "flush"
    /\ nwrites = 2
    /\ Len(db) > 0

\* a key of the layout: one of the three global keys, or a decimal height
\* followed by segments of a known shape
KeyOfLayout(k) ==
    \/ k \in {S_height, S_epoch_start_height, S_epoch_start_time}
    \/ KnownShape(k) /\ IsDecimal(Split(k, KEY_SEGMENT_SEPARATOR)[1])

\* C16: once a write_block has completed on a store that began empty, the
\* height pointer and both epoch-start entries are present, the five
\* essential entries of the pointed height exist, and every stored key is
\* of the layout; hence read_last_block never returns Ok(None), the
\* Temporary essential-data error or UnknownKey.
C16_AfterFirstWrite ==
    last # << >> =>
        /\ PointedHeight(db) # << >>
        /\ MapGet(db, S_epoch_start_height) # << >>
        /\ MapGet(db, S_epoch_start_time) # << >>
        /\ \A k \in EssentialKeys(PointedHeight(db)[1]) : MapGet(db, k) # << >>
        /\ \A i \in 1..Len(db) : KeyOfLayout(db[i].k)
        /\ ret.op = "read_last_block" =>
            ret.res \notin {OkNone, Err("Temporary:EssentialData"), Err("UnknownKey")}

\* C16 witness: read_last_block has returned a state after two write_block
\* calls, the second at a lower height than the first.
C16_Witness ==
    /\ ret.op = "read_last_block"
    /\ nwrites = 2
    /\ ret.res.tag = "Ok" /\ ret.res.val # << >>
    /\ \E p \in DOMAIN committed : p[1] > last[1].height

\* C17: iter_prefix matches its prefix segment by segment: every yielded
\* key is the prefix itself or the prefix followed by the separator and
\* further segments, so that the key ab/z is not yielded for the prefix a.
C17_SegmentWisePrefix ==
    ret.op = "iter_prefix" =>
        \A j \in 1..Len(ret.res.val) :
            \/ ret.res.val[j].key = KeyToString(ret.key)
            \/ StartsWith(ret.res.val[j].key,
                          KeyToString(ret.key) \o <<KEY_SEGMENT_SEPARATOR>>)

\* C18: after write_block returns, the height entry decodes to the height
\* of that most recent call and the two epoch-start entries to that call's
\* values, whether or not the height went up; write_block returns Ok(())
\* whatever the state and never rejects a height that is not above the
\* stored one.
C18_LastWriteWins ==
    /\ (pc = "idle" /\ last # << >>) =>
        /\ MapGet(db, S_height) # << >>
        /\ DecodeU64(MapGet(db, S_height)[1]) = OkSome(last[1].height)
        /\ MapGet(db, S_epoch_start_height) # << >>
        /\ DecodeU64(MapGet(db, S_epoch_start_height)[1])
             = OkSome(last[1].epoch_start_height)
        /\ MapGet(db, S_epoch_start_time) # << >>
        /\ DecodeBlob(MapGet(db, S_epoch_start_time)[1])
             = OkSome(last[1].epoch_start_time)
    /\ ret.op = "write_block" =>
        ret.res = OkNone /\ last # << >> /\ ret.height = last[1].height

\* C18 witness: a second write_block has returned, at a height below the
\* first call's and with other epoch-start values.
C18_Witness ==
    /\ ret.op = "write_block"
    /\ nwrites = 2
    /\ \E p \in DOMAIN committed : p[1] > last[1].height
    /\ \E p \in DOMAIN committed : Len(committed[p]) # last[1].epoch

=============================================================================
